---- MODULE Spec2Model ----
(***************************************************************************)
(* JsonRpcClient of testclient/a2a_client.py: a JSON-RPC 2.0 client over   *)
(* an httpx.AsyncClient transport that it either borrows (given at         *)
(* construction) or owns (created per call, or at scoped entry).           *)
(*                                                                         *)
(* Python values are records [t |-> <python type>, v |-> <payload>]:       *)
(*   NoneType: v = "None"; bool: v \in BOOLEAN; int: v \in Int;            *)
(*   str: v a sequence of one-character strings; list: v a sequence of     *)
(*   values; dict: v a function from key strings to values.                *)
(* Spec taxonomy vs. the exceptions of the source:                         *)
(*   TransportError = httpx.RequestError, HttpStatusError =                *)
(*   httpx.HTTPStatusError, MalformedResponseError = ValueError,           *)
(*   ProtocolError = JsonRpcError.                                         *)
(***************************************************************************)
EXTENDS Integers, Sequences, FiniteSets, TLC

\* ---------------------------------------------------------------- bounds
\* Number of call/notify invocations of one run (each slot is used once).
MaxInv == 2
\* Number of transport objects (httpx.AsyncClient instances) that can exist.
MaxTransports == 2

Inv == 1..MaxInv
Transports == 1..MaxTransports

\* The absent transport handle (Python None in _httpx_client / client).
None == 0

\* ---------------------------------------------------------- python values
PyNone == [t |-> "NoneType", v |-> "None"]
PyInt(n) == [t |-> "int", v |-> n]
PyBool(b) == [t |-> "bool", v |-> b]
PyStr(chars) == [t |-> "str", v |-> chars]
PyList(elems) == [t |-> "list", v |-> elems]
PyDict(f) == [t |-> "dict", v |-> f]
\* No value at all: an omitted key of a mapping.
Absent == [t |-> "absent", v |-> "absent"]

\* The dict with no keys.
EmptyMap == [k \in {} |-> PyNone]

\* The characters of the key strings the client looks up.
Chars(key) ==
    CASE key = "error" -> <<"e", "r", "r", "o", "r">>
      [] key = "result" -> <<"r", "e", "s", "u", "l", "t">>
      [] OTHER -> <<key>>

\* Python ==: numbers (bool is an int) compare by value, lists element by
\* element and dicts key by key with ==, everything else by type and
\* payload.
PyNum(a) == IF a.t = "bool" THEN (IF a.v THEN 1 ELSE 0) ELSE a.v
RECURSIVE PyEq(_, _)
PyEq(a, b) ==
    IF a.t \in {"int", "bool"} /\ b.t \in {"int", "bool"}
    THEN PyNum(a) = PyNum(b)
    ELSE IF a.t # b.t THEN FALSE
    ELSE IF a.t = "list"
    THEN /\ Len(a.v) = Len(b.v)
         /\ \A i \in 1..Len(a.v) : PyEq(a.v[i], b.v[i])
    ELSE IF a.t = "dict"
    THEN /\ DOMAIN a.v = DOMAIN b.v
         /\ \A k \in DOMAIN a.v : PyEq(a.v[k], b.v[k])
    ELSE a.v = b.v

\* sub occurs in s as a contiguous run (str.__contains__).
IsSubstring(sub, s) ==
    \E i \in 0..(Len(s) - Len(sub)) :
        \A j \in 1..Len(sub) : s[i + j] = sub[j]

\* `key in c` is defined for containers only; on int, bool and None it
\* raises TypeError.
SupportsIn(c) == c.t \in {"dict", "str", "list"}
Contains(key, c) ==
    CASE c.t = "dict" -> key \in DOMAIN c.v
      [] c.t = "str" -> IsSubstring(Chars(key), c.v)
      [] c.t = "list" -> \E i \in 1..Len(c.v) : PyEq(c.v[i], PyStr(Chars(key)))
      [] OTHER -> FALSE

\* c[key] with a str key is defined for dicts only (TypeError on str, list).
SupportsItem(c) == c.t = "dict"
\* c.get(key) exists on dicts only (AttributeError otherwise).
SupportsGet(c) == c.t = "dict"
Get(c, key) == IF key \in DOMAIN c.v THEN c.v[key] ELSE PyNone

\* ------------------------------------------------------ what a call ends in
\* raised = "none" is a normal return of `value`; otherwise the name of the
\* exception class that leaves the invocation.  `error` holds the attributes
\* of a JsonRpcError; `warned` tells whether the id-mismatch warning was
\* printed.
NoError == [code |-> PyNone, message |-> PyNone, data |-> PyNone,
            request_id |-> PyNone]
Return(value, warned) ==
    [raised |-> "none", value |-> value, error |-> NoError, warned |-> warned]
Raise(exc) ==
    [raised |-> exc, value |-> PyNone, error |-> NoError, warned |-> FALSE]
JsonRpcError(code, message, data, request_id) ==
    [raised |-> "JsonRpcError", value |-> PyNone,
     error |-> [code |-> code, message |-> message, data |-> data,
                request_id |-> request_id],
     warned |-> FALSE]

\* ------------------------------------------------------------ the response
\* What the awaited client.post(...) produces: an httpx.RequestError
\* (network failure, timeout), a RuntimeError (httpx refuses to send on a
\* closed client), or a response with a status code and a body.  The body
\* either does not decode as JSON (json_ok = FALSE) or decodes to `json`.
RequestFailed == [kind |-> "RequestError"]
ClientClosed == [kind |-> "RuntimeError"]
Response(status_code, json_ok, json) ==
    [kind |-> "response", status_code |-> status_code, json_ok |-> json_ok,
     json |-> json]

\* httpx Response.is_success: the 2xx range.
IsSuccess(status_code) == status_code >= 200 /\ status_code <= 299

\* The try/except around post and raise_for_status: the exception that
\* leaves it, or "none" when a 2xx response was received.
PostRaises(wire) ==
    CASE wire.kind = "RequestError" -> "RequestError"
      [] wire.kind = "RuntimeError" -> "RuntimeError"
      [] OTHER -> IF IsSuccess(wire.status_code) THEN "none"
                  ELSE "HTTPStatusError"

\* `"error" in response_data and response_data["error"] is not None`,
\* evaluated on a value for which `in` is defined.
HasError(response_data) ==
    /\ Contains("error", response_data)
    /\ (SupportsItem(response_data) =>
            response_data.v["error"].t # "NoneType")

\* `response_data.get("id") != request_id` and the value returned.
ReturnResultStrictId(response_data, request_id) ==
    IF ~PyEq(Get(response_data, "id"), request_id)
    THEN Raise("ValueError")
    ELSE IF "result" \notin DOMAIN response_data.v THEN Raise("KeyError")
    ELSE Return(response_data.v["result"], FALSE)
ReturnResult(response_data, request_id) ==
    IF "result" \notin DOMAIN response_data.v THEN Raise("KeyError")
    ELSE Return(response_data.v["result"],
                ~PyEq(Get(response_data, "id"), request_id))

\* bool(a) is False.
Falsy(a) ==
    CASE a.t = "NoneType" -> TRUE
      [] a.t = "bool" -> ~a.v
      [] a.t = "int" -> a.v = 0
      [] a.t \in {"str", "list"} -> Len(a.v) = 0
      [] a.t = "dict" -> DOMAIN a.v = {}
      [] OTHER -> FALSE

\* `"result" not in response_data`
ResultMissingNever(response_data) == FALSE
ResultMissingWhenFalsy(response_data) ==
    \/ ~Contains("result", response_data)
    \/ response_data.t = "dict" /\ Falsy(response_data.v["result"])
ResultMissing(response_data) == ~Contains("result", response_data)

\* The request_id given to JsonRpcError: `response_data.get("id")`.
ErrorIdOfRequest(response_data, request_id) == request_id
ErrorId(response_data, request_id) == Get(response_data, "id")

\* The checks of call on the decoded body, in the order of the source.
Validate(response_data, request_id) ==
    IF ~SupportsIn(response_data) THEN Raise("TypeError")
    ELSE IF HasError(response_data)
    THEN IF ~SupportsItem(response_data) THEN Raise("TypeError")
         ELSE LET error_info == response_data.v["error"] IN
              IF ~SupportsGet(error_info) THEN Raise("AttributeError")
              ELSE JsonRpcError(Get(error_info, "code"),
                                Get(error_info, "message"),
                                Get(error_info, "data"),
                                ErrorId(response_data, request_id))
    ELSE IF ResultMissing(response_data) THEN Raise("ValueError")
    ELSE IF ~SupportsGet(response_data) THEN Raise("AttributeError")
    ELSE ReturnResult(response_data, request_id)

\* call, from the awaited post to its end.
CallOutcomeBodyFirst(wire, request_id) ==
    IF wire.kind # "response" THEN Raise(PostRaises(wire))
    ELSE IF ~wire.json_ok THEN Raise("ValueError")
    ELSE IF Validate(wire.json, request_id).raised # "none"
    THEN Validate(wire.json, request_id)
    ELSE IF PostRaises(wire) # "none" THEN Raise(PostRaises(wire))
    ELSE Validate(wire.json, request_id)
CallOutcome(wire, request_id) ==
    IF PostRaises(wire) # "none" THEN Raise(PostRaises(wire))
    ELSE IF ~wire.json_ok THEN Raise("ValueError")
    ELSE Validate(wire.json, request_id)

\* notify, from the awaited post to its end: the body is never read.
NotifyOutcome(wire) ==
    IF PostRaises(wire) # "none" THEN Raise(PostRaises(wire))
    ELSE Return(PyNone, FALSE)

\* ------------------------------------------------------------------ inputs
\* str(uuid.uuid4()): a fresh non-empty string per generation.
Digits == <<"1", "2", "3", "4", "5", "6", "7", "8", "9">>
Uuid4Fixed(n) == PyStr(<<"u", "u", "i", "d", "-", Digits[1]>>)
Uuid4(n) == PyStr(<<"u", "u", "i", "d", "-", Digits[n]>>)

Methods == {<<"p", "i", "n", "g">>}
\* params as the caller passes it: omitted, an empty mapping, a sequence.
ParamsIn == {PyNone, PyDict(EmptyMap), PyList(<<PyInt(1)>>)}
\* request_id as the caller passes it: omitted, two falsy ids, a list.
RequestIds == {PyNone, PyInt(0), PyStr(<<>>), PyList(<<PyInt(1)>>)}
\* An id no request of the model carries.
OtherId == PyInt(7)

\* The request envelope of call (with_id) and notify.
PayloadTruthyParams(with_id, method, params, request_id) ==
    PyDict(("jsonrpc" :> PyStr(<<"2", ".", "0">>))
           @@ ("method" :> PyStr(method))
           @@ (IF with_id THEN "id" :> request_id ELSE EmptyMap)
           @@ (IF ~Falsy(params) THEN "params" :> params ELSE EmptyMap))
Payload(with_id, method, params, request_id) ==
    PyDict(("jsonrpc" :> PyStr(<<"2", ".", "0">>))
           @@ ("method" :> PyStr(method))
           @@ (IF with_id THEN "id" :> request_id ELSE EmptyMap)
           @@ (IF params.t # "NoneType" THEN "params" :> params ELSE EmptyMap))

\* `error` fields a server can answer with (Absent: no such key).
ErrorObjects ==
    { PyDict(("code" :> PyInt(-32601))
             @@ ("message" :> PyStr(<<"n", "o">>))),
      PyDict(("code" :> PyInt(-32000)) @@ ("message" :> PyStr(<<"x">>))
             @@ ("data" :> PyList(<<PyInt(1)>>))),
      PyDict(EmptyMap) }
ErrorFields ==
    {Absent, PyNone, PyStr(<<"b", "o", "o", "m">>), PyInt(0)}
        \cup ErrorObjects
ResultFields ==
    { Absent, PyNone, PyStr(<<"p", "o", "n", "g">>), PyBool(FALSE), PyInt(0),
      PyList(<<>>), PyDict(EmptyMap) }
\* Another JSON value that Python's == finds equal to the id, if there is
\* one in the model (true == 1), else the id itself.
EqualTwin(request_id) ==
    IF request_id.t = "list" /\ Len(request_id.v) = 1
          /\ request_id.v[1].t = "int" /\ request_id.v[1].v = 1
    THEN PyList(<<PyBool(TRUE)>>)
    ELSE request_id
IdFields(request_id) ==
    {Absent, PyNone, request_id, EqualTwin(request_id), OtherId}

Envelope(error, result, id) ==
    PyDict(("jsonrpc" :> PyStr(<<"2", ".", "0">>))
           @@ (IF error.t # "absent" THEN "error" :> error ELSE EmptyMap)
           @@ (IF result.t # "absent" THEN "result" :> result ELSE EmptyMap)
           @@ (IF id.t # "absent" THEN "id" :> id ELSE EmptyMap))

\* Decoded bodies that are JSON objects.
ObjectBodies(request_id) ==
    {Envelope(e, r, request_id) : e \in ErrorFields, r \in ResultFields}
        \cup {Envelope(e, r, i) :
                e \in {Absent, PyNone, CHOOSE o \in ErrorObjects : "data" \in DOMAIN o.v},
                r \in ResultFields, i \in IdFields(request_id)}

\* Decoded bodies that are JSON values other than objects.
ScalarBodies ==
    { PyNone, PyInt(5), PyBool(TRUE),
      PyStr(<<"p", "o", "n", "g">>), PyStr(Chars("error")),
      PyStr(<<"n", "o", " ">> \o Chars("result")),
      PyList(<<>>), PyList(<<PyStr(Chars("error"))>>),
      PyList(<<PyStr(Chars("result"))>>) }

\* What the server can answer to one request.
SuccessCodes == {200, 204}
FailureCodes == {302, 404, 500}
Responses(request_id) ==
    {Response(200, TRUE, b) :
        b \in ObjectBodies(request_id) \cup ScalarBodies}
    \cup {Response(s, FALSE, PyNone) : s \in SuccessCodes \cup FailureCodes}
    \cup {Response(s, TRUE, b) :
            s \in FailureCodes \cup {204},
            b \in { Envelope(Absent, PyStr(<<"p", "o", "n", "g">>), request_id),
                    Envelope(CHOOSE o \in ErrorObjects : "data" \in DOMAIN o.v,
                             Absent, request_id) }}

\* ------------------------------------------------------------------- state
VARIABLES
    server_url,     \* self.server_url
    httpx_client,   \* self._httpx_client: a transport, or None
    owns_client,    \* self._owns_client
    scope,          \* "in" between __aenter__ and __aexit__, "exiting"
                    \* while __aexit__ is suspended in close(), else "out"
    tstate,         \* per transport: "unborn", "open" or "closed"
    origin,         \* per transport: who created it
    acloseCalls,    \* per transport: number of aclose() calls made on it
    posts,          \* per transport: number of post() calls made on it
    pc,             \* per invocation: "idle", "sending" (suspended in
                    \* post), "releasing" (suspended in the aclose of the
                    \* finally block), "done"
    kind,           \* per invocation: "call" or "notify"
    client,         \* per invocation: the local `client` of call / notify
    request_id,     \* per invocation: the local `request_id` of call
    received,       \* per invocation: what post resumed with and whether
                    \* its connection stayed in the pool, held while the
                    \* invocation is suspended in aclose
    closing,        \* number of close() calls suspended in aclose (line 42)
    uuids,          \* number of uuid4 values generated so far
    event           \* what the last step did, as its caller observes it

vars == <<server_url, httpx_client, owns_client, scope, tstate, origin,
          acloseCalls, posts, pc, kind, client, request_id, received,
          closing, uuids, event>>

clientVars == <<server_url, httpx_client, owns_client>>
invVars == <<pc, kind, client, request_id, received, uuids>>

\* Nothing received.
NoWire == [wire |-> [kind |-> "none"], kept |-> FALSE]

Url == "http://localhost:10002"

\* JsonRpcClient(server_url) or JsonRpcClient(server_url, httpx_client):
\* in the second form the caller's transport is transport 1, open.
Init ==
    /\ server_url = Url
    /\ \E given \in BOOLEAN :
        /\ httpx_client = (IF given THEN 1 ELSE None)
        /\ owns_client = ~given
        /\ tstate = [x \in Transports |->
                        IF given /\ x = 1 THEN "open" ELSE "unborn"]
        /\ origin = [x \in Transports |->
                        IF given /\ x = 1 THEN "caller" ELSE "nobody"]
    /\ scope = "out"
    /\ acloseCalls = [x \in Transports |-> 0]
    /\ posts = [x \in Transports |-> 0]
    /\ pc = [i \in Inv |-> "idle"]
    /\ kind = [i \in Inv |-> "none"]
    /\ client = [i \in Inv |-> None]
    /\ request_id = [i \in Inv |-> PyNone]
    /\ received = [i \in Inv |-> NoWire]
    /\ closing = 0
    /\ uuids = 0
    /\ event = [type |-> "init"]

\* httpx.AsyncClient(): the next transport object not yet in existence.
CanCreate == \E x \in Transports : tstate[x] = "unborn"
NewTransport ==
    CHOOSE x \in Transports :
        /\ tstate[x] = "unborn"
        /\ \A y \in Transports : tstate[y] = "unborn" => x <= y

\* _get_client: the held transport when there is one, else a new one.
GetClientReuse ==
    IF httpx_client # None THEN httpx_client
    ELSE IF \E x \in Transports : origin[x] = "_get_client"
    THEN CHOOSE x \in Transports : origin[x] = "_get_client"
    ELSE NewTransport
GetClient == IF httpx_client # None THEN httpx_client ELSE NewTransport

\* self._httpx_client after _get_client returned c: _get_client assigns
\* nothing, a transport it creates is held by the invocation only.
HandleAfterGetClientStored(c) == c
HandleAfterGetClient(c) == httpx_client

\* The condition of the finally block of call and notify.
ReleasesWhenBorrowed(c) == c # None
ReleasesNever(c) == FALSE
Releases(c) == owns_client /\ c # None

\* The condition of close().
Closes == httpx_client # None /\ owns_client

\* Another invocation than i is suspended in its post on transport c.
InFlight(c, i) ==
    \E j \in Inv \ {i} : pc[j] = "sending" /\ client[j] = c

\* Whether `await c.aclose()` gives control away: httpx marks the client
\* closed and closes the connections of its pool, and yields only in the
\* close of a live connection.  On a closed client, and with no connection
\* in the pool (nothing sent, no connection made, the response closed the
\* connection), aclose() returns at once; `kept` tells that the exchange
\* just ended left its connection in the pool: a keep-alive response, or a
\* post that failed after the connection was made and given back (a
\* response that cannot be decoded raises httpx.DecodingError, a
\* RequestError); the connection of a request in flight is live or still
\* being made.
AcloseYieldsNever(c, kept, i) == {FALSE}
AcloseYields(c, kept, i) ==
    IF c = None \/ tstate[c] # "open" THEN {FALSE}
    ELSE IF kept THEN {TRUE}
    ELSE IF InFlight(c, i) THEN {TRUE, FALSE}
    ELSE {FALSE}

\* aclose() on transport c, up to its suspension if it has one.
Aclose(c) ==
    /\ tstate' = [tstate EXCEPT ![c] = "closed"]
    /\ acloseCalls' = [acloseCalls EXCEPT ![c] = @ + 1]

\* ----------------------------------------------------------------- actions
\* The invocation slots are taken in order.
Idle(i) == pc[i] = "idle" /\ \A j \in Inv : j < i => pc[j] # "idle"

\* What the caller of invocation i observes when it ends.
Done(i, k, c, rid, wire, kept) ==
    [type |-> "done", inv |-> i, kind |-> k, client |-> c, request_id |-> rid,
     wire |-> wire, kept |-> kept,
     outcome |-> IF k = "call" THEN CallOutcome(wire, rid)
                 ELSE NotifyOutcome(wire)]

\* The finally block of call and notify.
Finally(c) ==
    IF Releases(c) THEN Aclose(c) ELSE UNCHANGED <<tstate, acloseCalls>>

\* From `client = await self._get_client()` to the suspension in
\* client.post(...); args is what the caller passed.  httpx raises
\* RuntimeError at once when the client is closed; no except clause catches
\* it and the finally block runs (aclose() on the closed client returns at
\* once).
BeginPost(i, k, rid, payload, args) ==
    /\ httpx_client = None => CanCreate
    /\ LET c == GetClient IN
        /\ httpx_client' = HandleAfterGetClient(c)
        /\ posts' = [posts EXCEPT ![c] = @ + 1]
        /\ origin' = IF tstate[c] = "unborn"
                     THEN [origin EXCEPT ![c] = "_get_client"] ELSE origin
        /\ IF tstate[c] = "closed"
           THEN /\ pc' = [pc EXCEPT ![i] = "done"]
                /\ UNCHANGED <<kind, client, request_id>>
                /\ Finally(c)
                /\ event' = Done(i, k, c, rid, ClientClosed, FALSE)
           ELSE /\ pc' = [pc EXCEPT ![i] = "sending"]
                /\ kind' = [kind EXCEPT ![i] = k]
                /\ client' = [client EXCEPT ![i] = c]
                /\ request_id' = [request_id EXCEPT ![i] = rid]
                /\ tstate' = [tstate EXCEPT ![c] = "open"]
                /\ UNCHANGED acloseCalls
                /\ event' = [type |-> "post", inv |-> i, kind |-> k,
                             client |-> c, payload |-> payload,
                             args |-> args]

\* call(method, params, request_id) up to its suspension point.
Call(i, method, params, rid) ==
    LET generated == rid.t = "NoneType"
        id == IF generated THEN Uuid4(uuids + 1) ELSE rid
    IN  /\ Idle(i)
        /\ uuids' = IF generated THEN uuids + 1 ELSE uuids
        /\ BeginPost(i, "call", id, Payload(TRUE, method, params, id),
                     [method |-> method, params |-> params,
                      request_id |-> rid])
        /\ UNCHANGED <<server_url, owns_client, scope, received, closing>>

\* notify(method, params) up to its suspension point.
Notify(i, method, params) ==
    /\ Idle(i)
    /\ BeginPost(i, "notify", PyNone,
                 Payload(FALSE, method, params, PyNone),
                 [method |-> method, params |-> params,
                  request_id |-> PyNone])
    /\ UNCHANGED <<server_url, owns_client, scope, received, closing, uuids>>

\* What the suspended post of invocation i can resume with.  A transport
\* closed under a request in flight may make it fail in any way.
Failures(i) ==
    {RequestFailed}
        \cup (IF client[i] # None /\ tstate[client[i]] = "closed"
              THEN {ClientClosed} ELSE {})
Wires(i) == Responses(request_id[i]) \cup Failures(i)

\* call / notify from the resumption of post: to the end of the invocation,
\* or to the suspension in `await client.aclose()` of the finally block.
\* kept: the exchange left its connection in the pool: a keep-alive
\* response, or a RequestError raised after the connection was given back;
\* post() on a closed client raises RuntimeError before any connection.
Respond(i, wire, kept) ==
    /\ pc[i] = "sending"
    /\ wire \in Wires(i)
    /\ kept => (wire # ClientClosed /\ tstate[client[i]] = "open")
    /\ Finally(client[i])
    /\ \E yields \in AcloseYields(client[i], kept, i) :
        IF Releases(client[i]) /\ yields
        THEN /\ pc' = [pc EXCEPT ![i] = "releasing"]
             /\ received' = [received EXCEPT
                               ![i] = [wire |-> wire, kept |-> kept]]
             /\ event' = [type |-> "release", inv |-> i, kind |-> kind[i],
                          client |-> client[i], kept |-> kept]
             /\ UNCHANGED <<kind, client, request_id>>
        ELSE /\ pc' = [pc EXCEPT ![i] = "done"]
             /\ event' = Done(i, kind[i], client[i], request_id[i], wire,
                              kept)
             /\ kind' = [kind EXCEPT ![i] = "none"]
             /\ client' = [client EXCEPT ![i] = None]
             /\ request_id' = [request_id EXCEPT ![i] = PyNone]
             /\ UNCHANGED received
    /\ UNCHANGED <<clientVars, scope, origin, posts, closing, uuids>>

\* call / notify from the resumption of aclose to the end of the invocation:
\* the exception propagates, or the body is decoded and checked.
Released(i) ==
    /\ pc[i] = "releasing"
    /\ pc' = [pc EXCEPT ![i] = "done"]
    /\ event' = Done(i, kind[i], client[i], request_id[i], received[i].wire,
                     received[i].kept)
    /\ kind' = [kind EXCEPT ![i] = "none"]
    /\ client' = [client EXCEPT ![i] = None]
    /\ request_id' = [request_id EXCEPT ![i] = PyNone]
    /\ received' = [received EXCEPT ![i] = NoWire]
    /\ UNCHANGED <<clientVars, scope, tstate, origin, acloseCalls, posts,
                   closing, uuids>>

\* Whether close() can suspend in `await self._httpx_client.aclose()`: the
\* held transport of an owning client has completed no request while it is
\* open, so its pool holds the connections of requests in flight only.
CloseYields ==
    IF Closes THEN AcloseYields(httpx_client, FALSE, None) ELSE {FALSE}

\* self._httpx_client after line 43 of close().
HandleAfterCloseKept == httpx_client
HandleAfterClose == None

\* The body of close(), up to the suspension of the aclose if it yields,
\* else up to its end.
CloseBody(yields) ==
    IF Closes
    THEN /\ Aclose(httpx_client)
         /\ httpx_client' = IF yields THEN httpx_client
                            ELSE HandleAfterClose
    ELSE UNCHANGED <<tstate, acloseCalls, httpx_client>>

\* close()
Close(yields) ==
    /\ yields \in CloseYields
    /\ CloseBody(yields)
    /\ closing' = IF yields THEN closing + 1 ELSE closing
    /\ event' = [type |-> "close", released |-> Closes,
                 finished |-> ~yields]
    /\ UNCHANGED <<server_url, owns_client, scope, origin, posts, invVars>>

\* close() from the resumption of the aclose: line 43.
CloseResume ==
    /\ closing > 0
    /\ closing' = closing - 1
    /\ httpx_client' = HandleAfterClose
    /\ event' = [type |-> "close_resumed"]
    /\ UNCHANGED <<server_url, owns_client, scope, tstate, origin,
                   acloseCalls, posts, invVars>>

\* __aenter__
Enter ==
    /\ scope = "out"
    /\ scope' = "in"
    /\ IF owns_client /\ httpx_client = None
       THEN /\ CanCreate
            /\ httpx_client' = NewTransport
            /\ tstate' = [tstate EXCEPT ![NewTransport] = "open"]
            /\ origin' = [origin EXCEPT ![NewTransport] = "__aenter__"]
       ELSE UNCHANGED <<httpx_client, tstate, origin>>
    /\ event' = [type |-> "enter"]
    /\ UNCHANGED <<server_url, owns_client, acloseCalls, posts, closing,
                   invVars>>

\* Whether __aexit__(exc_type, exc_val, exc_tb) invokes close(): always,
\* whatever exception left the body.
ClosesOnExitUnlessFailed(failed) == ~failed
ClosesOnExit(failed) == TRUE

\* __aexit__, after a body that failed or not, up to the suspension of
\* close() if its aclose yields, else up to its end.
Exit(failed, yields) ==
    /\ scope = "in"
    /\ IF ClosesOnExit(failed)
       THEN /\ yields \in CloseYields
            /\ CloseBody(yields)
            /\ scope' = IF yields THEN "exiting" ELSE "out"
       ELSE /\ ~yields
            /\ UNCHANGED <<tstate, acloseCalls, httpx_client>>
            /\ scope' = "out"
    /\ event' = [type |-> "exit", failed |-> failed,
                 closeCalls |-> IF ClosesOnExit(failed) THEN 1 ELSE 0,
                 released |-> ClosesOnExit(failed) /\ Closes,
                 finished |-> ~yields]
    /\ UNCHANGED <<server_url, owns_client, origin, posts, closing, invVars>>

\* __aexit__ from the resumption of the aclose in close(): line 43, and the
\* return of close() and of __aexit__.
ExitResume ==
    /\ scope = "exiting"
    /\ scope' = "out"
    /\ httpx_client' = HandleAfterClose
    /\ event' = [type |-> "exit_resumed"]
    /\ UNCHANGED <<server_url, owns_client, tstate, origin, acloseCalls,
                   posts, closing, invVars>>

\* A success and a failure; with the transport errors of Failures these are
\* the endings that concurrency and the lifecycle can tell apart.
SomeResponses(rid) ==
    { Response(200, TRUE,
               Envelope(Absent, PyStr(<<"p", "o", "n", "g">>), rid)),
      Response(500, TRUE,
               Envelope(Absent, PyStr(<<"p", "o", "n", "g">>), rid)) }

\* The client in use: every operation, in every interleaving.
Next ==
    \/ \E i \in Inv, method \in Methods : Call(i, method, PyNone, PyNone)
    \/ \E i \in Inv, method \in Methods : Notify(i, method, PyNone)
    \/ \E i \in Inv :
          \E wire \in SomeResponses(request_id[i]) \cup Failures(i) :
              \E kept \in BOOLEAN : Respond(i, wire, kept)
    \/ \E i \in Inv : Released(i)
    \/ \E yields \in BOOLEAN : Close(yields)
    \/ CloseResume
    \/ Enter
    \/ \E failed, yields \in BOOLEAN : Exit(failed, yields)
    \/ ExitResume

Spec == Init /\ [][Next]_vars

\* No invocation is under way.
NoneInFlight == \A j \in Inv : pc[j] \in {"idle", "done"}

\* One invocation after the other on a client used without scoped entry,
\* with every request and every response of the input sets.
NextOne ==
    \/ \E i \in Inv, method \in Methods, params \in ParamsIn,
          rid \in RequestIds :
          NoneInFlight /\ Call(i, method, params, rid)
    \/ \E i \in Inv, method \in Methods, params \in ParamsIn :
          NoneInFlight /\ Notify(i, method, params)
    \/ \E i \in Inv : \E wire \in Wires(i), kept \in BOOLEAN :
          Respond(i, wire, kept)
    \/ \E i \in Inv : Released(i)

SpecOne == Init /\ [][NextOne]_vars

\* ------------------------------------------------------------------ claims

\* C1: an owning client that holds no transport (used outside scoped entry)
\* gives every call and notify a transport of its own, created for it and
\* posted on once, open while the invocation is suspended and released
\* (exactly one aclose) as soon as the invocation is over, whatever it ends
\* in.
C1_PerCallTransportReleased ==
    owns_client =>
        /\ (event.type = "post" /\ httpx_client = None) =>
              /\ origin[event.client] = "_get_client"
              /\ posts[event.client] = 1
        /\ \A x \in Transports :
              origin[x] = "_get_client" =>
                  IF \E i \in Inv : pc[i] = "sending" /\ client[i] = x
                  THEN tstate[x] = "open" /\ acloseCalls[x] = 0
                  ELSE tstate[x] = "closed" /\ acloseCalls[x] = 1

\* C1 witness: a call on its own transport ended in MalformedResponseError
\* (ValueError) and the transport is closed.
C1_Witness ==
    /\ owns_client
    /\ event.type = "done"
    /\ event.outcome.raised = "ValueError"
    /\ origin[event.client] = "_get_client"
    /\ tstate[event.client] = "closed"

\* C2: a transport supplied at construction stays open, is never given an
\* aclose() by the client, and stays the client's held transport.
C2_BorrowedNeverClosed ==
    \A x \in Transports :
        origin[x] = "caller" =>
            tstate[x] = "open" /\ acloseCalls[x] = 0 /\ httpx_client = x

\* C2 witness: a borrowing client leaves a scope whose body failed, after at
\* least two invocations were posted on the borrowed transport.
C2_Witness ==
    /\ ~owns_client
    /\ event.type = "exit"
    /\ event.failed
    /\ \A i \in Inv : pc[i] = "done"
    /\ \E x \in Transports : origin[x] = "caller" /\ posts[x] >= 2

\* C3: no invocation releases a transport (open before its last step, closed
\* after it) on which another invocation is still suspended in its send.
C3_RaceFree ==
    [][\A i \in Inv :
          (/\ pc[i] = "sending"
           /\ pc'[i] # "sending"
           /\ tstate[client[i]] = "open"
           /\ tstate'[client[i]] = "closed")
          => \A j \in Inv \ {i} :
                ~(pc[j] = "sending" /\ client[j] = client[i])]_vars

\* C4 as stated: no transport of an owning client is posted on by more than
\* one invocation.
C4_OwnedNeverShared ==
    owns_client => \A x \in Transports : posts[x] <= 1

\* C4 amended: a transport created per call by _get_client is posted on by
\* one invocation only; sharing happens only on the transport that
\* __aenter__ created.
C4_PerCallNeverShared ==
    \A x \in Transports :
        /\ origin[x] = "_get_client" => posts[x] <= 1
        /\ (owns_client /\ posts[x] > 1) => origin[x] = "__aenter__"

\* C4 witness: two invocations of an owning client, each on its own
\* transport.
C4_Witness ==
    /\ owns_client
    /\ \E x, y \in Transports :
          /\ x # y
          /\ origin[x] = "_get_client" /\ posts[x] = 1
          /\ origin[y] = "_get_client" /\ posts[y] = 1

\* A call has just ended on a response with a 2xx status whose body decoded
\* to a JSON object.
CallEndedOnObject ==
    /\ event.type = "done"
    /\ event.kind = "call"
    /\ event.wire.kind = "response"
    /\ event.wire.status_code \in 200..299
    /\ event.wire.json_ok
    /\ event.wire.json.t = "dict"
\* The fields of that object.
Fields == DOMAIN event.wire.json.v
Field(key) == event.wire.json.v[key]

\* C5: a call that received a response with a status outside 200..299 ends
\* in HttpStatusError (httpx.HTTPStatusError), whatever the body.
C5_StatusTakesPrecedence ==
    (/\ event.type = "done"
     /\ event.kind = "call"
     /\ event.wire.kind = "response"
     /\ event.wire.status_code \notin 200..299)
    => event.outcome.raised = "HTTPStatusError"

\* C5 witness: status 500 with a valid success envelope as the body.
C5_Witness ==
    /\ event.type = "done"
    /\ event.kind = "call"
    /\ event.wire.kind = "response"
    /\ event.wire.status_code = 500
    /\ event.wire.json_ok
    /\ event.wire.json.t = "dict"
    /\ "result" \in DOMAIN event.wire.json.v
    /\ "error" \notin DOMAIN event.wire.json.v
    /\ event.outcome.raised = "HTTPStatusError"

\* C6: every call ends by returning or by raising one of TransportError
\* (RequestError), HttpStatusError (HTTPStatusError), ProtocolError
\* (JsonRpcError), MalformedResponseError (ValueError).
C6_TaxonomyTotal ==
    (event.type = "done" /\ event.kind = "call")
    => event.outcome.raised \in
          {"none", "RequestError", "HTTPStatusError", "JsonRpcError",
           "ValueError"}

\* C7: a 2xx response whose body has a non-null `error` field makes call
\* raise ProtocolError (JsonRpcError), with or without a `result` field.
C7_ErrorWins ==
    (/\ CallEndedOnObject
     /\ "error" \in Fields
     /\ Field("error").t # "NoneType")
    => event.outcome.raised = "JsonRpcError"

\* C8 as stated: a 2xx response whose body has both `result` and `error`,
\* or neither, makes call raise MalformedResponseError (ValueError).
C8_ExactlyOne ==
    (/\ CallEndedOnObject
     /\ ("error" \in Fields) = ("result" \in Fields))
    => event.outcome.raised = "ValueError"

\* C8 amended: neither field present is malformed (ValueError); both present
\* is not: an error object beside a result raises ProtocolError
\* (JsonRpcError), a null error beside a result returns the result.
C8_NeitherIsMalformed ==
    CallEndedOnObject =>
        /\ ("error" \notin Fields /\ "result" \notin Fields)
              => event.outcome.raised = "ValueError"
        /\ ("error" \in Fields /\ "result" \in Fields
                /\ Field("error").t = "dict")
              => event.outcome.raised = "JsonRpcError"
        /\ ("error" \in Fields /\ "result" \in Fields
                /\ Field("error").t = "NoneType")
              => /\ event.outcome.raised = "none"
                 /\ event.outcome.value = Field("result")

\* C8 witness: a body with neither field was rejected as malformed.
C8_Witness ==
    /\ CallEndedOnObject
    /\ "error" \notin Fields
    /\ "result" \notin Fields
    /\ event.outcome.raised = "ValueError"

\* The response carries the id of the request.
IdEchoed ==
    /\ "id" \in Fields
    /\ Field("id").t = event.request_id.t
    /\ Field("id").v = event.request_id.v

\* C9: a 2xx response with a `result` field and no non-null `error` makes
\* call return the `result` value, whatever the response id is; the warning
\* is printed when the response id is absent, null or another id, and never
\* when it is the id of the request.
C9_IdMismatchNotFatal ==
    (/\ CallEndedOnObject
     /\ "result" \in Fields
     /\ ("error" \in Fields => Field("error").t = "NoneType"))
    => /\ event.outcome.raised = "none"
       /\ event.outcome.value = Field("result")
       /\ IdEchoed => ~event.outcome.warned
       /\ ("id" \notin Fields \/ Field("id").t = "NoneType"
              \/ (Field("id").t = OtherId.t /\ Field("id").v = OtherId.v))
             => event.outcome.warned

\* C9 witness: a result returned from a response that carries another id,
\* with the warning.
C9_Witness ==
    /\ CallEndedOnObject
    /\ "result" \in Fields
    /\ "id" \in Fields
    /\ Field("id") = OtherId
    /\ event.outcome.raised = "none"
    /\ event.outcome.value = Field("result")
    /\ event.outcome.warned

\* C10: notify returns normally on every 2xx response, whatever the body,
\* and raises nothing but TransportError (RequestError) and HttpStatusError
\* (HTTPStatusError).
C10_NotifyErrors ==
    (event.type = "done" /\ event.kind = "notify")
    => /\ (event.wire.kind = "response"
              /\ event.wire.status_code \in 200..299)
          => event.outcome.raised = "none"
       /\ event.outcome.raised \in {"none", "RequestError", "HTTPStatusError"}

\* C11: close() releases the held transport of an owning client and, once
\* it has run to its end, has cleared the handle; on a client that holds no
\* transport or borrows it, close() changes nothing.  A close() that
\* follows a close() leaves every transport in the state it was in, ends
\* with no handle held by an owning client, and changes nothing at all when
\* the close() before it had run to its end.
C11_CloseIdempotent ==
    [][/\ event'.type = "close" =>
            /\ IF owns_client /\ httpx_client # None
               THEN /\ tstate' = [tstate EXCEPT ![httpx_client] = "closed"]
                    /\ acloseCalls' =
                          [acloseCalls EXCEPT ![httpx_client] = @ + 1]
                    /\ httpx_client' =
                          IF event'.finished THEN None ELSE httpx_client
                    /\ closing' =
                          IF event'.finished THEN closing ELSE closing + 1
               ELSE /\ event'.finished
                    /\ UNCHANGED <<httpx_client, tstate, acloseCalls, closing>>
            /\ event.type \in {"close", "close_resumed"} =>
                  /\ tstate' = tstate
                  /\ event'.finished
                  /\ owns_client => httpx_client' = None
            /\ (event.type = "close_resumed"
                    \/ (event.type = "close" /\ event.finished)) =>
                  UNCHANGED <<httpx_client, tstate, acloseCalls, closing>>
            /\ UNCHANGED <<server_url, owns_client, scope, origin, posts,
                           invVars>>
       /\ event'.type = "close_resumed" =>
            /\ httpx_client' = None
            /\ closing' = closing - 1
            /\ UNCHANGED <<server_url, owns_client, scope, tstate, origin,
                           acloseCalls, posts, invVars>>]_vars

\* C11 witness: inside a scope an owning client has been closed, and a
\* further close() has found nothing to release: the transport of the scope
\* got exactly one aclose().
C11_Witness ==
    /\ owns_client
    /\ scope = "in"
    /\ event.type = "close"
    /\ ~event.released
    /\ httpx_client = None
    /\ \E x \in Transports :
          /\ origin[x] = "__aenter__"
          /\ posts[x] = 0
          /\ tstate[x] = "closed"
          /\ acloseCalls[x] = 1

\* C12: every scoped exit, after a body that failed or not, invokes close()
\* once: the held transport of an owning client gets one more aclose() and
\* is closed, no other transport is touched, and once __aexit__ has
\* returned (outside any scope) an owning client holds no transport.
C12_ScopedRelease ==
    /\ [](owns_client /\ scope = "out" => httpx_client = None)
    /\ [][/\ event'.type = "exit" =>
               /\ scope = "in"
               /\ scope' = IF event'.finished THEN "out" ELSE "exiting"
               /\ event'.closeCalls = 1
               /\ (owns_client /\ event'.finished) => httpx_client' = None
               /\ \A x \in Transports :
                     IF owns_client /\ x = httpx_client
                     THEN /\ tstate'[x] = "closed"
                          /\ acloseCalls'[x] = acloseCalls[x] + 1
                     ELSE /\ tstate'[x] = tstate[x]
                          /\ acloseCalls'[x] = acloseCalls[x]
          /\ event'.type = "exit_resumed" =>
               /\ scope = "exiting"
               /\ scope' = "out"
               /\ httpx_client' = None
               /\ UNCHANGED <<tstate, acloseCalls>>]_vars

\* C12 witness: an owning client has left a scope whose body failed; the
\* transport of the scope is closed and no handle is held.
C12_Witness ==
    /\ owns_client
    /\ event.type = "exit"
    /\ event.failed
    /\ event.released
    /\ scope = "out"
    /\ httpx_client = None
    /\ \E x \in Transports : origin[x] = "__aenter__" /\ tstate[x] = "closed"

\* C13: a 2xx response with a `result` field and no non-null `error` makes
\* call return the value of the `result` field as it is, also when that
\* value is null, false, zero or an empty container.
C13_ResultUnmodified ==
    (/\ CallEndedOnObject
     /\ "result" \in Fields
     /\ ("error" \in Fields => Field("error").t = "NoneType"))
    => /\ event.outcome.raised = "none"
       /\ event.outcome.value.t = Field("result").t
       /\ event.outcome.value.v = Field("result").v

\* C13 witness: a present but null `result` (beside a null `error`) was
\* returned as None.
C13_Witness ==
    /\ CallEndedOnObject
    /\ "result" \in Fields
    /\ "error" \in Fields
    /\ Field("result").t = "NoneType"
    /\ event.outcome.raised = "none"
    /\ event.outcome.value.t = "NoneType"

\* Two Python values are the same value.
SameValue(a, b) == a.t = b.t /\ a.v = b.v
\* The value under `key` of a decoded object, None when there is no such key.
Carried(object, key) ==
    IF key \in DOMAIN object.v THEN object.v[key] ELSE PyNone

\* C14: the ProtocolError (JsonRpcError) raised by call carries the code,
\* message and data of the response's error object (None for a member the
\* object lacks) and, as request_id, the id of the response as received
\* (None when the response has none), whatever the id of the request is.
C14_ErrorCarriesResponseId ==
    (/\ event.type = "done"
     /\ event.kind = "call"
     /\ event.outcome.raised = "JsonRpcError")
    => /\ CallEndedOnObject
       /\ "error" \in Fields
       /\ \A key \in {"code", "message", "data"} :
             SameValue(event.outcome.error[key],
                       Carried(Field("error"), key))
       /\ SameValue(event.outcome.error.request_id,
                    Carried(event.wire.json, "id"))

\* C14 witness: a ProtocolError with data whose request_id is the id of the
\* response, which is not the id of the request.
C14_Witness ==
    /\ event.type = "done"
    /\ event.kind = "call"
    /\ event.outcome.raised = "JsonRpcError"
    /\ event.outcome.error.data.t = "list"
    /\ SameValue(event.outcome.error.request_id, OtherId)
    /\ ~SameValue(event.request_id, OtherId)

\* The id of the request of a call that has just been started.
StartedId(e) == IF e.type = "post" THEN e.payload.v["id"] ELSE e.request_id

\* C15: a call invoked without an id puts in its request a non-empty string
\* that differs from the id generated for every earlier id-less call of the
\* client, finished or still in flight; ids of calls in flight together are
\* pairwise distinct.
C15_GeneratedIdsDistinct ==
    /\ [](\A i, j \in Inv :
            (i # j /\ pc[i] = "sending" /\ pc[j] = "sending"
             /\ kind[i] = "call" /\ kind[j] = "call")
            => ~SameValue(request_id[i], request_id[j]))
    /\ [][uuids' # uuids =>
            /\ event'.type \in {"post", "done"}
            /\ event'.kind = "call"
            /\ LET id == StartedId(event') IN
                /\ id.t = "str"
                /\ Len(id.v) > 0
                /\ \A k \in 1..uuids : ~SameValue(id, Uuid4(k))
                /\ \A j \in Inv :
                      (pc[j] = "sending" /\ kind[j] = "call")
                      => ~SameValue(id, request_id[j])]_vars

\* C15 witness: a second id-less call is sent while the first is in flight.
C15_Witness ==
    /\ event.type = "post"
    /\ event.kind = "call"
    /\ event.inv = 2
    /\ uuids = 2
    /\ pc[1] = "sending"
    /\ kind[1] = "call"
    /\ request_id[1].t = "str"
    /\ event.payload.v["id"].t = "str"

\* The number of post() calls made so far, on all transports.
RECURSIVE PostsUpTo(_)
PostsUpTo(x) == IF x = 0 THEN 0 ELSE posts[x] + PostsUpTo(x - 1)
Started == {i \in Inv : pc[i] # "idle"}

\* Exactly one post() per invocation: the step that starts an invocation
\* makes one post on the transport it uses, no other step makes any, and an
\* invocation that has started or ended never starts again.
OneSendPerInvocation ==
    /\ [](PostsUpTo(MaxTransports) = Cardinality(Started))
    /\ [][/\ \A i \in Inv :
                /\ pc[i] # "idle" => pc'[i] # "idle"
                /\ pc[i] = "done" => pc'[i] = "done"
          /\ \A x \in Transports :
                posts'[x] = posts[x]
                    + (IF /\ \E i \in Inv : pc[i] = "idle" /\ pc'[i] # "idle"
                          /\ event'.client = x
                       THEN 1 ELSE 0)]_vars

\* C16 as stated: exactly one send per call and per notify invocation on
\* every outcome, and the send is the only suspension point: an invocation
\* that resumes from its send terminates.
C16_OneSendOneSuspension ==
    /\ OneSendPerInvocation
    /\ [][\A i \in Inv :
            (pc[i] = "sending" /\ pc'[i] # "sending") => pc'[i] = "done"]_vars

\* C16, amended: exactly one send (one post() call) per call and per notify
\* invocation on every outcome, no retry and no fallback; an invocation on
\* a borrowed transport suspends at the send only; an invocation of a
\* client that owns its transports suspends a second time before it
\* terminates, in the awaited release of its transport, when the exchange
\* (a response, or a send that failed after its connection was made) left
\* its connection in the pool of a transport that is still open, and
\* otherwise only if another request is in flight on that transport.
C16_OneSendReleaseAwaited ==
    /\ OneSendPerInvocation
    /\ [][\A i \in Inv :
            /\ (pc[i] = "sending" /\ pc'[i] # "sending") =>
                  /\ pc'[i] \in {"releasing", "done"}
                  /\ pc'[i] = "releasing" =>
                        /\ owns_client
                        /\ tstate[client[i]] = "open"
                        /\ event'.kept \/ InFlight(client[i], i)
                  /\ (owns_client /\ tstate[client[i]] = "open"
                          /\ event'.kept) => pc'[i] = "releasing"
            /\ (pc[i] = "releasing" /\ pc'[i] # "releasing") =>
                  /\ pc'[i] = "done"
                  /\ UNCHANGED <<tstate, acloseCalls, posts>>]_vars

\* C16 witness: a notify of an owning client has ended in a failed send
\* (RequestError) after one post and the awaited release of the connection
\* the failed exchange left in the pool.
C16_Witness ==
    /\ event.type = "done"
    /\ event.kind = "notify"
    /\ owns_client
    /\ event.kept
    /\ event.wire = RequestFailed
    /\ event.outcome.raised = "RequestError"
    /\ posts[event.client] = 1
    /\ acloseCalls[event.client] = 1
    /\ tstate[event.client] = "closed"

\* C17: the envelope of every request sent.  A call sends jsonrpc "2.0",
\* the method and an id: the caller's id when one was passed, falsy ids 0
\* and "" included, else a generated non-empty string.  A notify sends
\* jsonrpc and method and no id.  Both send params exactly when the caller
\* passed params other than None, as passed, and never as null; no other
\* member is sent.
C17_EnvelopeShape ==
    event.type = "post" =>
        LET p == event.payload.v
            a == event.args
        IN  /\ event.payload.t = "dict"
            /\ DOMAIN p \subseteq {"jsonrpc", "method", "id", "params"}
            /\ "jsonrpc" \in DOMAIN p
            /\ SameValue(p["jsonrpc"], PyStr(<<"2", ".", "0">>))
            /\ "method" \in DOMAIN p
            /\ SameValue(p["method"], PyStr(a.method))
            /\ event.kind = "call" =>
                  /\ "id" \in DOMAIN p
                  /\ IF a.request_id.t = "NoneType"
                     THEN p["id"].t = "str" /\ Len(p["id"].v) > 0
                     ELSE SameValue(p["id"], a.request_id)
            /\ event.kind = "notify" => "id" \notin DOMAIN p
            /\ "params" \in DOMAIN p <=> a.params.t # "NoneType"
            /\ "params" \in DOMAIN p =>
                  /\ p["params"].t # "NoneType"
                  /\ SameValue(p["params"], a.params)

\* C17 witness: a call with id 0 and params {} is sent with both.
C17_Witness ==
    /\ event.type = "post"
    /\ event.kind = "call"
    /\ SameValue(event.args.request_id, PyInt(0))
    /\ SameValue(event.args.params, PyDict(EmptyMap))
    /\ "id" \in DOMAIN event.payload.v
    /\ SameValue(event.payload.v["id"], PyInt(0))
    /\ "params" \in DOMAIN event.payload.v

\* An invocation starts in this step while no other invocation is in flight.
StartsAlone ==
    /\ \E i \in Inv : pc[i] = "idle" /\ pc'[i] # "idle"
    /\ \A j \in Inv : pc[j] # "sending"

\* C18: no use after release.  When a call or a notify performs its send
\* with no other invocation in flight, the transport it sends on has not
\* been closed.
C18_NoUseAfterRelease ==
    [][StartsAlone => tstate[event'.client] # "closed"]_vars

\* C19: every transport the client created is released exactly once: never
\* more than one aclose() on it, one aclose() on a per-call transport as
\* soon as its invocation is over, and one on the transport of a scoped
\* entry once the scope has been left.
C19_ReleasedExactlyOnce ==
    \A x \in Transports :
        /\ origin[x] \in {"_get_client", "__aenter__"} => acloseCalls[x] <= 1
        /\ (/\ origin[x] = "_get_client"
            /\ ~\E i \in Inv : pc[i] = "sending" /\ client[i] = x)
           => acloseCalls[x] = 1
        /\ (origin[x] = "__aenter__" /\ scope = "out") => acloseCalls[x] = 1

\* C20: call and notify leave the client's own state as it was: no step of
\* an invocation, whatever it ends in, changes the endpoint address, the
\* ownership flag or the held transport handle; the handle changes only in
\* scoped entry and in close() (scoped exit invokes close()), and the
\* ownership flag and the address never change after construction.
C20_InvocationFrame ==
    [][/\ owns_client' = owns_client
       /\ server_url' = server_url
       /\ event'.type \in {"post", "release", "done"} =>
             httpx_client' = httpx_client
       /\ httpx_client' # httpx_client =>
             event'.type \in {"enter", "close", "close_resumed", "exit",
                              "exit_resumed"}]_vars

\* C20 witness: a call of an owning client inside a scope has ended and
\* released the scoped transport, and the client still holds the handle.
C20_Witness ==
    /\ event.type = "done"
    /\ event.kind = "call"
    /\ owns_client
    /\ scope = "in"
    /\ httpx_client # None
    /\ event.client = httpx_client
    /\ tstate[httpx_client] = "closed"
    /\ server_url = Url

====
